---- MODULE Spec2Model ----
(***************************************************************************)
(* Model of src/06-objects-tasks.js: the cssSelectorBuilder object and the *)
(* selector objects its methods return.                                    *)
(*                                                                         *)
(* Every selector is a JavaScript object; the model keeps them in a heap   *)
(* (a sequence of records, the index is the object's identity), so that a  *)
(* method that wrote to its receiver would be visible as a changed heap    *)
(* cell.  heap[1] is the module-level cssSelectorBuilder.                  *)
(***************************************************************************)
EXTENDS Integers, Sequences, FiniteSets, TLC

VARIABLES
  heap,   \* the selector objects: heap[i] = [total, prev, elOc, idOc, pElOc]
  ghost,  \* history of each object: the calls of the chain that produced it
  last,   \* the most recent call: method, receiver, arguments and outcome
  rect,   \* the object `new Rectangle(width, height)` made
  rcall,  \* the most recent use of the rectangle and its outcome
  js,     \* a getJSON / fromJSON computation: input, text, result
  chain   \* two call chains on the builder, taking turns

vars == <<heap, ghost, last, rect, rcall, js, chain>>

\* The parts of the state a run of the selector builder does not touch.
aside == <<rect, rcall, js, chain>>

\* Nothing made yet outside the selector builder.
Idle == rect = <<>> /\ rcall = <<>> /\ js = <<>> /\ chain = <<>>

\* Largest number of selector objects alive (the builder included).
MaxObjs == 3

\* Argument values the calls are made with.
Values == {"a", "b"}

\* Combinator tokens combine is called with.
Tokens == {"+", ">"}

-----------------------------------------------------------------------------
\* The two Error objects every selector carries, and "no exception".
erAlrOc == "duplicate"
erWOrd == "order"
NoErr == "none"

\* The object literal: empty text, no previous part, no occurrence flag set.
cssSelectorBuilder ==
  [total |-> "", prev |-> "", elOc |-> FALSE, idOc |-> FALSE, pElOc |-> FALSE]

\* `return { ...this, ... }`: a fresh object is allocated and returned.
Ret(h, o) == [heap |-> Append(h, o), ret |-> Len(h) + 1, err |-> NoErr]

\* `throw e`: no object is created, the heap is as it was.
Throw(h, e) == [heap |-> h, ret |-> 0, err |-> e]

-----------------------------------------------------------------------------
(* The methods.  Each takes the heap and the index of its receiver `this`  *)
(* and yields the heap after the call, the index of the returned object    *)
(* and the exception thrown, if any.                                       *)

\* element that sets the fields of its receiver and returns it.
elementInPlace(h, this, value) ==
  LET t == h[this] IN
  IF t.elOc THEN Throw(h, erAlrOc)
  ELSE IF t.prev # "" THEN Throw(h, erWOrd)
  ELSE [heap |-> [h EXCEPT ![this] = [t EXCEPT !.prev = "elem", !.elOc = TRUE,
                                               !.total = t.total \o value]],
        ret |-> this, err |-> NoErr]

\* element with the two checks in the other order.
elementOrderFirst(h, this, value) ==
  LET t == h[this] IN
  IF t.prev # "" THEN Throw(h, erWOrd)
  ELSE IF t.elOc THEN Throw(h, erAlrOc)
  ELSE Ret(h, [t EXCEPT !.prev = "elem", !.elOc = TRUE,
                        !.total = t.total \o value])

element(h, this, value) ==
  LET t == h[this] IN
  IF t.elOc THEN Throw(h, erAlrOc)
  ELSE IF t.prev # "" THEN Throw(h, erWOrd)
  ELSE Ret(h, [t EXCEPT !.prev = "elem", !.elOc = TRUE,
                        !.total = t.total \o value])

\* id that sets the fields of its receiver and returns it.
idInPlace(h, this, value) ==
  LET t == h[this] IN
  IF t.idOc THEN Throw(h, erAlrOc)
  ELSE IF t.prev = "class" \/ t.prev = "pseudoElem" THEN Throw(h, erWOrd)
  ELSE [heap |-> [h EXCEPT ![this] = [t EXCEPT !.prev = "id", !.idOc = TRUE,
                                               !.total = t.total \o "#" \o value]],
        ret |-> this, err |-> NoErr]

\* id with the two checks in the other order.
idOrderFirst(h, this, value) ==
  LET t == h[this] IN
  IF t.prev = "class" \/ t.prev = "pseudoElem" THEN Throw(h, erWOrd)
  ELSE IF t.idOc THEN Throw(h, erAlrOc)
  ELSE Ret(h, [t EXCEPT !.prev = "id", !.idOc = TRUE,
                        !.total = t.total \o "#" \o value])

\* id that forgets to record its occurrence.
idNoFlag(h, this, value) ==
  LET t == h[this] IN
  IF t.idOc THEN Throw(h, erAlrOc)
  ELSE IF t.prev = "class" \/ t.prev = "pseudoElem" THEN Throw(h, erWOrd)
  ELSE Ret(h, [t EXCEPT !.prev = "id", !.total = t.total \o "#" \o value])

id(h, this, value) ==
  LET t == h[this] IN
  IF t.idOc THEN Throw(h, erAlrOc)
  ELSE IF t.prev = "class" \/ t.prev = "pseudoElem" THEN Throw(h, erWOrd)
  ELSE Ret(h, [t EXCEPT !.prev = "id", !.idOc = TRUE,
                        !.total = t.total \o "#" \o value])

\* class that also rejects a receiver whose last part is a pseudo-class.
classAfterPseudo(h, this, value) ==
  LET t == h[this] IN
  IF t.prev = "attr" \/ t.prev = "pseudoClass" THEN Throw(h, erWOrd)
  ELSE Ret(h, [t EXCEPT !.prev = "class", !.total = t.total \o "." \o value])

class(h, this, value) ==
  LET t == h[this] IN
  IF t.prev = "attr" THEN Throw(h, erWOrd)
  ELSE Ret(h, [t EXCEPT !.prev = "class", !.total = t.total \o "." \o value])

\* attr that appends to its receiver before it checks the order.
attrWriteThenThrow(h, this, value) ==
  LET t == h[this] IN
  IF t.prev = "pseudoClass"
  THEN [heap |-> [h EXCEPT ![this] =
                    [t EXCEPT !.total = t.total \o "[" \o value \o "]"]],
        ret |-> 0, err |-> erWOrd]
  ELSE Ret(h, [t EXCEPT !.prev = "attr",
                        !.total = t.total \o "[" \o value \o "]"])

\* attr without its order check.
attrNoCheck(h, this, value) ==
  LET t == h[this] IN
  Ret(h, [t EXCEPT !.prev = "attr", !.total = t.total \o "[" \o value \o "]"])

attr(h, this, value) ==
  LET t == h[this] IN
  IF t.prev = "pseudoClass" THEN Throw(h, erWOrd)
  ELSE Ret(h, [t EXCEPT !.prev = "attr",
                        !.total = t.total \o "[" \o value \o "]"])

\* pseudoClass that assigns to its receiver and returns it.
pseudoClassInPlace(h, this, value) ==
  LET t == h[this] IN
  IF t.prev = "pseudoElem" THEN Throw(h, erWOrd)
  ELSE [heap |-> [h EXCEPT ![this] = [t EXCEPT !.prev = "pseudoClass",
                                               !.total = t.total \o ":" \o value]],
        ret |-> this, err |-> NoErr]

\* pseudoClass that compares with the wrong category name.
pseudoClassWrongPrev(h, this, value) ==
  LET t == h[this] IN
  IF t.prev = "pseudoClass" THEN Throw(h, erWOrd)
  ELSE Ret(h, [t EXCEPT !.prev = "pseudoClass",
                        !.total = t.total \o ":" \o value])

pseudoClass(h, this, value) ==
  LET t == h[this] IN
  IF t.prev = "pseudoElem" THEN Throw(h, erWOrd)
  ELSE Ret(h, [t EXCEPT !.prev = "pseudoClass",
                        !.total = t.total \o ":" \o value])

\* pseudoElement with a single colon.
pseudoElementOneColon(h, this, value) ==
  LET t == h[this] IN
  IF t.pElOc THEN Throw(h, erAlrOc)
  ELSE Ret(h, [t EXCEPT !.prev = "pseudoElem", !.pElOc = TRUE,
                        !.total = t.total \o ":" \o value])

\* pseudoElement that throws the other error for a repeated pseudo-element.
pseudoElementWrongError(h, this, value) ==
  LET t == h[this] IN
  IF t.pElOc THEN Throw(h, erWOrd)
  ELSE Ret(h, [t EXCEPT !.prev = "pseudoElem", !.pElOc = TRUE,
                        !.total = t.total \o "::" \o value])

pseudoElement(h, this, value) ==
  LET t == h[this] IN
  IF t.pElOc THEN Throw(h, erAlrOc)
  ELSE Ret(h, [t EXCEPT !.prev = "pseudoElem", !.pElOc = TRUE,
                        !.total = t.total \o "::" \o value])

\* combine that spreads its first selector instead of its receiver.
combineFromFirst(h, this, selector1, combinator, selector2) ==
  Ret(h, [h[selector1] EXCEPT
            !.total = h[selector1].total \o " " \o combinator \o " "
                        \o h[selector2].total])

\* combine with its two selectors exchanged.
combineSwapped(h, this, selector1, combinator, selector2) ==
  Ret(h, [h[this] EXCEPT
            !.total = h[selector2].total \o " " \o combinator \o " "
                        \o h[selector1].total])

combine(h, this, selector1, combinator, selector2) ==
  Ret(h, [h[this] EXCEPT
            !.total = h[selector1].total \o " " \o combinator \o " "
                        \o h[selector2].total])

stringify(h, this) == h[this].total

-----------------------------------------------------------------------------
(* History.  ghost[i].frags is the sequence of <<method, value>> of the    *)
(* successful part-adding calls on the chain of receivers that led to      *)
(* object i; the object combine returns continues the chain of combine's   *)
(* receiver, and its `pure` is FALSE (its text does not come from the      *)
(* chain's parts alone).  ghost[i].from is the receiver object i was       *)
(* returned by (0 for the builder itself).                                 *)

Bind(g, i, rec) == IF i > Len(g) THEN Append(g, rec) ELSE [g EXCEPT ![i] = rec]

NoCall == [op |-> "", this |-> 0, value |-> "", a |-> 0, b |-> 0,
           err |-> NoErr, ret |-> 0, out |-> ""]

Init ==
  /\ heap = <<cssSelectorBuilder>>
  /\ ghost = <<[frags |-> <<>>, pure |-> TRUE, from |-> 0]>>
  /\ last = NoCall
  /\ Idle

\* A call of one of the six part-adding methods, with outcome r.
Add(op, this, value, r) ==
  /\ Len(r.heap) <= MaxObjs
  /\ heap' = r.heap
  /\ ghost' = IF r.err = NoErr
              THEN Bind(ghost, r.ret,
                        [frags |-> Append(ghost[this].frags, <<op, value>>),
                         pure |-> ghost[this].pure, from |-> this])
              ELSE ghost
  /\ last' = [NoCall EXCEPT !.op = op, !.this = this, !.value = value,
                            !.err = r.err, !.ret = r.ret]
  /\ UNCHANGED aside

CallElement ==
  \E this \in DOMAIN heap, value \in Values :
    Add("element", this, value, element(heap, this, value))

CallId ==
  \E this \in DOMAIN heap, value \in Values :
    Add("id", this, value, id(heap, this, value))

CallClass ==
  \E this \in DOMAIN heap, value \in Values :
    Add("class", this, value, class(heap, this, value))

CallAttr ==
  \E this \in DOMAIN heap, value \in Values :
    Add("attr", this, value, attr(heap, this, value))

CallPseudoClass ==
  \E this \in DOMAIN heap, value \in Values :
    Add("pseudoClass", this, value, pseudoClass(heap, this, value))

CallPseudoElement ==
  \E this \in DOMAIN heap, value \in Values :
    Add("pseudoElement", this, value, pseudoElement(heap, this, value))

CallCombine ==
  \E this \in DOMAIN heap, s1 \in DOMAIN heap, s2 \in DOMAIN heap,
     combinator \in Tokens :
    LET r == combine(heap, this, s1, combinator, s2) IN
    /\ Len(r.heap) <= MaxObjs
    /\ heap' = r.heap
    /\ ghost' = IF r.err = NoErr
                THEN Bind(ghost, r.ret,
                          [frags |-> ghost[this].frags, pure |-> FALSE,
                           from |-> this])
                ELSE ghost
    /\ last' = [NoCall EXCEPT !.op = "combine", !.this = this,
                              !.value = combinator, !.a = s1, !.b = s2,
                              !.err = r.err, !.ret = r.ret]
    /\ UNCHANGED aside

CallStringify ==
  \E this \in DOMAIN heap :
    /\ last' = [NoCall EXCEPT !.op = "stringify", !.this = this,
                              !.out = stringify(heap, this)]
    /\ UNCHANGED <<heap, ghost>>
    /\ UNCHANGED aside

Next ==
  \/ CallElement
  \/ CallId
  \/ CallClass
  \/ CallAttr
  \/ CallPseudoClass
  \/ CallPseudoElement
  \/ CallCombine
  \/ CallStringify

Spec == Init /\ [][Next]_vars

-----------------------------------------------------------------------------
(* Vocabulary of the properties.                                           *)

AddOps == {"element", "id", "class", "attr", "pseudoClass", "pseudoElement"}

\* The order the erWOrd message and the header comment give the parts.
Rank(op) ==
  CASE op = "element" -> 0
    [] op = "id" -> 1
    [] op = "class" -> 2
    [] op = "attr" -> 3
    [] op = "pseudoClass" -> 4
    [] op = "pseudoElement" -> 5

\* The part-adding calls of the chain that led to object i, oldest first.
Frags(i) == ghost[i].frags

Has(f, op) == \E k \in DOMAIN f : f[k][1] = op

Count(f, op) == Cardinality({k \in DOMAIN f : f[k][1] = op})

\* The method of the most recent part-adding call of a chain ("" if none).
LastCat(f) == IF f = <<>> THEN "" ELSE f[Len(f)][1]

NonDecreasing(f) ==
  \A j, k \in DOMAIN f : j < k => Rank(f[j][1]) <= Rank(f[k][1])

-----------------------------------------------------------------------------
\* C1: on every chain of successful part-adding calls from the builder, the
\* categories added are non-decreasing in the order element, id, class,
\* attribute, pseudo-class, pseudo-element.
C1_RankOrder ==
  \A i \in DOMAIN heap : ghost[i].pure => NonDecreasing(Frags(i))

\* C2: element, id and pseudoElement have each been added at most once on a
\* chain, and a call of one of them on a chain that already has it throws
\* the duplicate error.
C2_AtMostOnce ==
  /\ \A i \in DOMAIN heap :
       \A op \in {"element", "id", "pseudoElement"} : Count(Frags(i), op) <= 1
  /\ (last.op \in {"element", "id", "pseudoElement"}
        /\ Has(Frags(last.this), last.op)) => last.err = erAlrOc

\* A second id two calls after the first has been rejected as a duplicate.
C2_Witness ==
  /\ last.op = "id"
  /\ last.err = erAlrOc
  /\ Len(Frags(last.this)) = 2
  /\ Frags(last.this)[1][1] = "id"

\* C3: a call leaves every existing object (receiver and arguments among
\* them) as it was, so stringify of each gives the same text as before, and
\* a successful part-adding call or combine returns an object that did not
\* exist before.
C3_NonMutating ==
  [][ /\ \A i \in DOMAIN heap :
           /\ i \in DOMAIN heap'
           /\ heap'[i] = heap[i]
           /\ stringify(heap', i) = stringify(heap, i)
      /\ (last'.op \in AddOps \cup {"combine"} /\ last'.err = NoErr) =>
           /\ last'.ret \notin DOMAIN heap
           /\ last'.ret \in DOMAIN heap'
    ]_vars

\* Two different selectors have been derived from the same receiver, which
\* still is what it was.
C3_Witness ==
  /\ Len(heap) = 3
  /\ ghost[2].from = 1 /\ ghost[3].from = 1
  /\ heap[2].total # heap[3].total
  /\ last.op = "pseudoClass" /\ last.err = NoErr /\ last.ret = 3
  /\ heap[1] = cssSelectorBuilder

\* C4: id throws the order error whenever the chain's last part is a class,
\* an attribute, a pseudo-class or a pseudo-element and the chain has no id.
C4_IdOrder ==
  (/\ last.op = "id"
   /\ ~Has(Frags(last.this), "id")
   /\ LastCat(Frags(last.this)) \in {"class", "attr", "pseudoClass", "pseudoElement"})
    => last.err = erWOrd

\* C5: element succeeds exactly on a chain with no part yet, throws the
\* duplicate error on a chain that has an element, and the order error on a
\* chain that has parts but no element.
C5_Element ==
  last.op = "element" =>
    LET f == Frags(last.this) IN
    /\ last.err = NoErr <=> f = <<>>
    /\ Has(f, "element") => last.err = erAlrOc
    /\ (f # <<>> /\ ~Has(f, "element")) => last.err = erWOrd

\* element after element and id has been rejected as a duplicate.
C5_Witness ==
  /\ last.op = "element"
  /\ last.err = erAlrOc
  /\ Len(Frags(last.this)) = 2
  /\ LastCat(Frags(last.this)) = "id"

C8_PseudoClass ==
  last.op = "pseudoClass" =>
    IF LastCat(Frags(last.this)) = "pseudoElement"
    THEN last.err = erWOrd
    ELSE /\ last.err = NoErr
         /\ heap[last.ret].total = heap[last.this].total \o ":" \o last.value

\* pseudoClass has been rejected on a chain whose last part is a
\* pseudo-element.
C8_Witness ==
  /\ last.op = "pseudoClass"
  /\ last.err = erWOrd
  /\ LastCat(Frags(last.this)) = "pseudoElement"
  /\ Len(Frags(last.this)) = 2

\* The text of one part, as the selector grammar writes it.
Encoding(op, value) ==
  CASE op = "element" -> value
    [] op = "id" -> "#" \o value
    [] op = "class" -> "." \o value
    [] op = "attr" -> "[" \o value \o "]"
    [] op = "pseudoClass" -> ":" \o value
    [] op = "pseudoElement" -> "::" \o value

RECURSIVE Concatenation(_)
Concatenation(f) ==
  IF f = <<>> THEN ""
  ELSE Concatenation(SubSeq(f, 1, Len(f) - 1))
         \o Encoding(f[Len(f)][1], f[Len(f)][2])

\* C9: the text of a selector built by part-adding calls alone is the
\* concatenation, in call order, of its parts' encodings, and stringify
\* returns that text without throwing, on any object.
C9_Stringify ==
  /\ \A i \in DOMAIN heap :
       ghost[i].pure => heap[i].total = Concatenation(Frags(i))
  /\ last.op = "stringify" =>
       /\ last.err = NoErr
       /\ last.out = heap[last.this].total
       /\ ghost[last.this].pure => last.out = Concatenation(Frags(last.this))

\* stringify has returned the text of a chain of two parts of different
\* categories.
C9_Witness ==
  /\ last.op = "stringify"
  /\ ghost[last.this].pure
  /\ Len(Frags(last.this)) = 2
  /\ Frags(last.this)[1][1] # Frags(last.this)[2][1]
  /\ Frags(last.this)[2][1] = "pseudoElement"

\* C10: combine never throws, and the text of the object it returns is the
\* first selector's text, a space, the token, a space, the second selector's
\* text, whatever the two selectors are (combine results included).
C10_Combine ==
  last.op = "combine" =>
    /\ last.err = NoErr
    /\ heap[last.ret].total =
         heap[last.a].total \o " " \o last.value \o " " \o heap[last.b].total

\* combine has joined a combine result with a selector of another text.
C10_Witness ==
  /\ last.op = "combine"
  /\ last.err = NoErr
  /\ ~ghost[last.a].pure
  /\ heap[last.a].total # heap[last.b].total
  /\ heap[last.ret].prev = ""

\* C11: a call that fails throws one of the two errors; the duplicate error
\* only from element, id or pseudoElement on a chain that already has that
\* part, the order error only from a part-adding call whose category ranks
\* below a part the chain already has; combine and stringify never fail.
C11_ErrorKinds ==
  last.err # NoErr =>
    LET f == Frags(last.this) IN
    /\ last.op \in AddOps
    /\ last.err \in {erAlrOc, erWOrd}
    /\ last.err = erAlrOc =>
         /\ last.op \in {"element", "id", "pseudoElement"}
         /\ Has(f, last.op)
    /\ last.err = erWOrd =>
         \E k \in DOMAIN f : Rank(f[k][1]) > Rank(last.op)

\* A pseudoElement call on a chain that has one has thrown.
C11_Witness ==
  /\ last.op = "pseudoElement"
  /\ last.err # NoErr
  /\ Has(Frags(last.this), "pseudoElement")
  /\ Len(Frags(last.this)) = 2

\* C15: a part-adding call that throws returns no object and leaves every
\* object, its receiver included, exactly as it was: nothing is appended.
C15_FailureLeavesState ==
  [][ last'.err # NoErr =>
        /\ heap' = heap
        /\ ghost' = ghost
        /\ last'.ret = 0
        /\ heap'[last'.this] = heap[last'.this]
    ]_vars

\* attr has thrown on the third object, a chain of two parts.
C15_Witness ==
  /\ last.op = "attr"
  /\ last.err = erWOrd
  /\ last.this = 3
  /\ last.ret = 0
  /\ Len(heap) = 3
  /\ heap[3].total = Concatenation(Frags(3))

\* C16: whatever calls were made, the builder itself has empty text, no last
\* category and no occurrence flag, so a part-adding call on it succeeds and
\* returns the text of that part alone.
C16_BuilderStaysEmpty ==
  /\ heap[1] = cssSelectorBuilder
  /\ Frags(1) = <<>>
  /\ (last.op \in AddOps /\ last.this = 1) =>
       /\ last.err = NoErr
       /\ heap[last.ret].total = Encoding(last.op, last.value)

\* element has succeeded on the builder after an earlier chain from the
\* builder had used element.
C16_Witness ==
  /\ last.op = "element"
  /\ last.this = 1
  /\ last.err = NoErr
  /\ last.ret = 3
  /\ ghost[2].from = 1
  /\ heap[2].elOc

\* C18: element or id on a chain where both the duplicate condition and the
\* order condition hold throws the duplicate error.
C18_DuplicateFirst ==
  LET f == Frags(last.this) IN
  (\/ /\ last.op = "element"
      /\ Has(f, "element")
      /\ f # <<>>
   \/ /\ last.op = "id"
      /\ Has(f, "id")
      /\ LastCat(f) \in {"class", "attr", "pseudoClass", "pseudoElement"})
    => last.err = erAlrOc

\* id after id and class has thrown the duplicate error.
C18_Witness ==
  /\ last.op = "id"
  /\ last.err = erAlrOc
  /\ Len(Frags(last.this)) = 2
  /\ Frags(last.this)[1][1] = "id"
  /\ LastCat(Frags(last.this)) = "class"

-----------------------------------------------------------------------------
(* Rectangle.                                                              *)

\* Largest absolute value of the numbers rectangles are made and set with.
MaxNum == 2

Nums == -MaxNum .. MaxNum

\* `new Rectangle(width, height)`: the two fields, and the scope the arrow
\* function getArea was created in (the constructor's parameters).
Rectangle(width, height) ==
  [width |-> width, height |-> height,
   scope |-> [width |-> width, height |-> height]]

\* getArea that multiplies the constructor's parameters.
getAreaOfParameters(this) == this.scope.width * this.scope.height

\* `() => this.width * this.height`
getArea(this) == this.width * this.height

\* The selector builder as the module creates it, untouched.
BuilderAtLoad ==
  /\ heap = <<cssSelectorBuilder>>
  /\ ghost = <<[frags |-> <<>>, pure |-> TRUE, from |-> 0]>>
  /\ last = NoCall

InitRect ==
  /\ \E w \in Nums, h \in Nums :
       /\ rect = Rectangle(w, h)
       /\ rcall = [op |-> "new", w |-> w, h |-> h, out |-> 0]
  /\ BuilderAtLoad
  /\ js = <<>> /\ chain = <<>>

\* `r.width = v`
SetWidth ==
  \E v \in Nums :
    /\ rect' = [rect EXCEPT !.width = v]
    /\ rcall' = [op |-> "setWidth", w |-> v, h |-> 0, out |-> 0]
    /\ UNCHANGED <<heap, ghost, last, js, chain>>

\* `r.height = v`
SetHeight ==
  \E v \in Nums :
    /\ rect' = [rect EXCEPT !.height = v]
    /\ rcall' = [op |-> "setHeight", w |-> 0, h |-> v, out |-> 0]
    /\ UNCHANGED <<heap, ghost, last, js, chain>>

\* `r.getArea()`
GetArea ==
  /\ rcall' = [op |-> "getArea", w |-> 0, h |-> 0, out |-> getArea(rect)]
  /\ UNCHANGED <<rect, heap, ghost, last, js, chain>>

NextRect ==
  \/ SetWidth
  \/ SetHeight
  \/ GetArea

SpecRect == InitRect /\ [][NextRect]_vars

\* C12: a rectangle made with (w, h) has width w and height h, for zero and
\* negative numbers too, and getArea returns the product of the width and
\* height the object has when it is called.
C12_Rectangle ==
  /\ rcall.op = "new" => rect.width = rcall.w /\ rect.height = rcall.h
  /\ rcall.op = "getArea" => rcall.out = rect.width * rect.height

\* getArea has been called on a rectangle whose fields were changed after
\* construction, to a negative width among others, and whose area is no
\* longer that of the constructor's arguments.
C12_Witness ==
  /\ rcall.op = "getArea"
  /\ rect.width < 0
  /\ rect.width # rect.scope.width
  /\ rect.height # rect.scope.height
  /\ rcall.out # rect.scope.width * rect.scope.height

-----------------------------------------------------------------------------
(* getJSON and fromJSON.                                                   *)
(*                                                                         *)
(* A JavaScript value is a tagged record; an object has a prototype and an *)
(* ordered list of own enumerable properties <<key, value>>.  Strings,     *)
(* keys and JSON text are sequences of characters.  The values are those   *)
(* of the JSON data model without arrays, and strings hold no quote and no *)
(* backslash, so no escape is ever written or read.                        *)

Null == [t |-> "null"]
Bool(b) == [t |-> "boolean", b |-> b]
Num(n) == [t |-> "number", n |-> n]
Str(s) == [t |-> "string", s |-> s]

ObjectPrototype == [ref |-> "Object.prototype"]
CirclePrototype == [ref |-> "Circle.prototype"]

Obj(proto, own) == [t |-> "object", proto |-> proto, own |-> own]

\* The key whose assignment Object.prototype answers with an accessor.
ProtoKey == <<"_", "_", "p", "r", "o", "t", "o", "_", "_">>

Quote == "\""

Digits == <<"0", "1", "2", "3", "4", "5", "6", "7", "8", "9">>

IsDigit(c) == \E d \in DOMAIN Digits : Digits[d] = c

DigitValue(c) == (CHOOSE d \in DOMAIN Digits : Digits[d] = c) - 1

RECURSIVE NatText(_)
NatText(n) ==
  IF n < 10 THEN <<Digits[n + 1]>>
  ELSE NatText(n \div 10) \o <<Digits[(n % 10) + 1]>>

RECURSIVE NatOf(_)
NatOf(ds) ==
  IF ds = <<>> THEN 0
  ELSE 10 * NatOf(SubSeq(ds, 1, Len(ds) - 1)) + DigitValue(ds[Len(ds)])

\* JSON.stringify of a value.
RECURSIVE Stringify(_)
Stringify(v) ==
  CASE v.t = "null" -> <<"n", "u", "l", "l">>
    [] v.t = "boolean" ->
         IF v.b THEN <<"t", "r", "u", "e">> ELSE <<"f", "a", "l", "s", "e">>
    [] v.t = "number" ->
         IF v.n < 0 THEN <<"-">> \o NatText(-v.n) ELSE NatText(v.n)
    [] v.t = "string" -> <<Quote>> \o v.s \o <<Quote>>
    [] v.t = "object" ->
         LET Member(k) == <<Quote>> \o v.own[k][1] \o <<Quote, ":">>
                            \o Stringify(v.own[k][2])
             Members[k \in 0 .. Len(v.own)] ==
               IF k = 0 THEN <<>>
               ELSE IF k = 1 THEN Member(1)
               ELSE Members[k - 1] \o <<",">> \o Member(k)
         IN <<"{">> \o Members[Len(v.own)] \o <<"}">>

getJSON(obj) == Stringify(obj)

\* JSON.parse, by recursive descent over the characters.  A parse step
\* yields [ok, v, next]: whether a value starts at position i, the value,
\* and the position after it.
At(s, i) == IF i \in DOMAIN s THEN s[i] ELSE ""

Literal(s, i, lit) ==
  /\ i + Len(lit) - 1 <= Len(s)
  /\ SubSeq(s, i, i + Len(lit) - 1) = lit

NoParse == [ok |-> FALSE, v |-> Null, next |-> 0]

Parsed(v, next) == [ok |-> TRUE, v |-> v, next |-> next]

\* A string: from the quote at i to the next quote.
ParseString(s, i) ==
  LET closing == {j \in (i + 1) .. Len(s) : s[j] = Quote} IN
  IF At(s, i) # Quote \/ closing = {} THEN NoParse
  ELSE LET j == CHOOSE c \in closing : \A d \in closing : c <= d
       IN Parsed(Str(SubSeq(s, i + 1, j - 1)), j + 1)

\* A number: an optional minus and a run of digits with no leading zero.
ParseNumber(s, i) ==
  LET first == IF At(s, i) = "-" THEN i + 1 ELSE i
      stop == CHOOSE j \in first .. (Len(s) + 1) :
                /\ \A k \in first .. (j - 1) : IsDigit(s[k])
                /\ ~IsDigit(At(s, j))
      n == NatOf(SubSeq(s, first, stop - 1))
  IN IF stop = first \/ (At(s, first) = "0" /\ stop > first + 1) THEN NoParse
     ELSE Parsed(Num(IF first > i THEN -n ELSE n), stop)

\* A later member of the same name replaces the earlier one.
Define(own, key, v) ==
  IF \E k \in DOMAIN own : own[k][1] = key
  THEN [k \in DOMAIN own |-> IF own[k][1] = key THEN <<key, v>> ELSE own[k]]
  ELSE Append(own, <<key, v>>)

RECURSIVE ParseValue(_, _), ParseMembers(_, _, _)
ParseValue(s, i) ==
  LET c == At(s, i) IN
  CASE c = "{" ->
         IF At(s, i + 1) = "}"
         THEN Parsed(Obj(ObjectPrototype, <<>>), i + 2)
         ELSE ParseMembers(s, i + 1, <<>>)
    [] c = Quote -> ParseString(s, i)
    [] c = "-" \/ IsDigit(c) -> ParseNumber(s, i)
    [] Literal(s, i, <<"n", "u", "l", "l">>) -> Parsed(Null, i + 4)
    [] Literal(s, i, <<"t", "r", "u", "e">>) -> Parsed(Bool(TRUE), i + 4)
    [] Literal(s, i, <<"f", "a", "l", "s", "e">>) -> Parsed(Bool(FALSE), i + 5)
    [] OTHER -> NoParse

\* The members of an object from position i on, `own` being those read.
ParseMembers(s, i, own) ==
  LET key == ParseString(s, i) IN
  IF ~key.ok \/ At(s, key.next) # ":" THEN NoParse
  ELSE LET val == ParseValue(s, key.next + 1) IN
       IF ~val.ok THEN NoParse
       ELSE LET now == Define(own, key.v.s, val.v) IN
            CASE At(s, val.next) = "," -> ParseMembers(s, val.next + 1, now)
              [] At(s, val.next) = "}" ->
                   Parsed(Obj(ObjectPrototype, now), val.next + 1)
              [] OTHER -> NoParse

\* JSON.parse(text): the value, or a SyntaxError.
JSONParse(text) ==
  LET r == ParseValue(text, 1) IN
  IF r.ok /\ r.next = Len(text) + 1 THEN [ok |-> TRUE, v |-> r.v]
  ELSE [ok |-> FALSE, v |-> Null]

\* Whether an object with prototype p inherits Object.prototype's __proto__
\* accessor: not when p is null; named prototypes and parsed objects do.
InheritsProtoAccessor(p) == p # Null

\* The [[Set]] Object.assign performs: an own data property is written,
\* but the key __proto__ reaches the inherited accessor, which replaces the
\* prototype when the value is an object or null and does nothing otherwise.
Set(o, key, v) ==
  IF key = ProtoKey /\ InheritsProtoAccessor(o.proto)
  THEN IF v.t \in {"object", "null"} THEN [o EXCEPT !.proto = v] ELSE o
  ELSE [o EXCEPT !.own = Define(o.own, key, v)]

\* Object.assign(target, source): the own enumerable properties of source,
\* in order; a source that is not an object has none here.
RECURSIVE AssignFrom(_, _, _)
AssignFrom(target, own, k) ==
  IF k > Len(own) THEN target
  ELSE AssignFrom(Set(target, own[k][1], own[k][2]), own, k + 1)

ObjectAssign(target, source) ==
  IF source.t = "object" THEN AssignFrom(target, source.own, 1)
  ELSE IF source.t = "string"
  THEN AssignFrom(target,
                  [k \in DOMAIN source.s |->
                     <<NatText(k - 1), Str(<<source.s[k]>>)>>], 1)
  ELSE target

SyntaxError == "SyntaxError"

\* fromJSON(proto, json): [err, res].
fromJSON(proto, json) ==
  LET obj == JSONParse(json) IN
  IF ~obj.ok THEN [err |-> SyntaxError, res |-> Null]
  ELSE [err |-> NoErr, res |-> ObjectAssign(Obj(proto, <<>>), obj.v)]

\* Largest number of own fields of the objects handed to getJSON.
MaxFields == 2

\* Largest number of characters missing at the end of a damaged text.
MaxCut == 2

Keys == {<<"r">>, <<"i", "d">>, ProtoKey}

FieldValues ==
  {Num(10), Num(-7), Str(<<"h", "i">>), Bool(TRUE), Null,
   Obj(ObjectPrototype, << <<(<<"r">>), Num(0)>> >>)}

\* The plain objects of at most MaxFields fields, no key twice.
PlainObjects ==
  {Obj(ObjectPrototype, own) :
     own \in {o \in UNION {[1 .. n -> Keys \X FieldValues] : n \in 0 .. MaxFields} :
                \A j, k \in DOMAIN o : j # k => o[j][1] # o[k][1]}}

Prototypes == {CirclePrototype, ObjectPrototype}

\* The text without its last `cut` characters.
Damaged(text, cut) == SubSeq(text, 1, Len(text) - cut)

InitJSON ==
  /\ \E x \in PlainObjects, proto \in Prototypes, cut \in 0 .. MaxCut :
       js = [pc |-> "start", x |-> x, proto |-> proto, cut |-> cut,
             text |-> <<>>, err |-> NoErr, res |-> Null]
  /\ BuilderAtLoad
  /\ rect = <<>> /\ rcall = <<>> /\ chain = <<>>

\* `getJSON(x)`; the text reaches fromJSON whole or cut short.
CallGetJSON ==
  /\ js.pc = "start"
  /\ js' = [js EXCEPT !.pc = "encoded",
                      !.text = Damaged(getJSON(js.x), js.cut)]
  /\ UNCHANGED <<heap, ghost, last, rect, rcall, chain>>

\* `fromJSON(proto, text)`
CallFromJSON ==
  /\ js.pc = "encoded"
  /\ LET r == fromJSON(js.proto, js.text) IN
     js' = [js EXCEPT !.pc = "done", !.err = r.err, !.res = r.res]
  /\ UNCHANGED <<heap, ghost, last, rect, rcall, chain>>

NextJSON ==
  \/ CallGetJSON
  \/ CallFromJSON

SpecJSON == InitJSON /\ [][NextJSON]_vars

\* The own data fields of an object: its <<name, value>> pairs.
Fields(o) == {o.own[k] : k \in DOMAIN o.own}

\* C13: fromJSON(proto, getJSON(x)) has exactly the own data fields, names
\* and values, of the plain value x.
C13_RoundTrip ==
  (js.pc = "done" /\ js.cut = 0) =>
    /\ js.err = NoErr
    /\ Fields(js.res) = Fields(js.x)

\* C14: for valid JSON text fromJSON returns an object whose prototype is
\* proto and whose own fields are exactly the fields of the parsed value;
\* for text that is not valid JSON it fails with the parse error and
\* returns no object.
C14_FromJSON ==
  js.pc = "done" =>
    IF js.cut = 0
    THEN /\ js.err = NoErr
         /\ js.res.t = "object"
         /\ js.res.proto = js.proto
         /\ Fields(js.res) = Fields(JSONParse(js.text).v)
    ELSE /\ js.err = SyntaxError
         /\ js.res = Null

-----------------------------------------------------------------------------
(* Two call chains on the builder, their calls interleaved.                *)

\* Largest number of calls one chain makes.
MaxSteps == 2

\* The method named op, called on object `this` of heap h.
Apply(op, h, this, value) ==
  CASE op = "element" -> element(h, this, value)
    [] op = "id" -> id(h, this, value)
    [] op = "class" -> class(h, this, value)
    [] op = "attr" -> attr(h, this, value)
    [] op = "pseudoClass" -> pseudoClass(h, this, value)
    [] op = "pseudoElement" -> pseudoElement(h, this, value)

\* The value each chain passes to its calls.
ChainValue(c) == IF c = 1 THEN "a" ELSE "b"

\* What a chain has to show: the error that ended it, or its text.
Outcome(err, text) == [err |-> err, text |-> text]

InitChains ==
  /\ chain = [cur |-> <<1, 1>>, calls |-> << <<>>, <<>> >>,
              out |-> <<Outcome(NoErr, ""), Outcome(NoErr, "")>>]
  /\ BuilderAtLoad
  /\ rect = <<>> /\ rcall = <<>> /\ js = <<>>

\* Chain c calls a part-adding method on the object its last call returned;
\* a chain whose call threw is given up.
ChainCall(c) ==
  /\ chain.out[c].err = NoErr
  /\ Len(chain.calls[c]) < MaxSteps
  /\ \E op \in AddOps :
       LET r == Apply(op, heap, chain.cur[c], ChainValue(c)) IN
       /\ heap' = r.heap
       /\ chain' =
            [cur |-> IF r.err = NoErr THEN [chain.cur EXCEPT ![c] = r.ret]
                     ELSE chain.cur,
             calls |-> [chain.calls EXCEPT
                          ![c] = Append(@, <<op, ChainValue(c)>>)],
             out |-> [chain.out EXCEPT
                        ![c] = IF r.err = NoErr
                               THEN Outcome(NoErr, stringify(r.heap, r.ret))
                               ELSE Outcome(r.err, "")]]
  /\ UNCHANGED <<ghost, last, rect, rcall, js>>

FirstChainCall == ChainCall(1)

SecondChainCall == ChainCall(2)

NextChains ==
  \/ FirstChainCall
  \/ SecondChainCall

SpecChains == InitChains /\ [][NextChains]_vars

\* The outcome of the calls made one after the other from the builder, with
\* no other call in between.
RECURSIVE RunFrom(_, _, _, _)
RunFrom(h, this, calls, k) ==
  IF k > Len(calls) THEN Outcome(NoErr, stringify(h, this))
  ELSE LET r == Apply(calls[k][1], h, this, calls[k][2]) IN
       IF r.err # NoErr THEN Outcome(r.err, "")
       ELSE RunFrom(r.heap, r.ret, calls, k + 1)

Alone(calls) == RunFrom(<<cssSelectorBuilder>>, 1, calls, 1)

\* C17: in every interleaving of two chains from the builder each chain has
\* the outcome, text or error, of its calls run alone, and its text stays
\* that while the other chain goes on.
C17_ChainsIndependent ==
  \A c \in {1, 2} :
    /\ chain.out[c] = Alone(chain.calls[c])
    /\ chain.out[c].err = NoErr =>
         stringify(heap, chain.cur[c]) = Alone(chain.calls[c]).text

\* The chains took turns (first, second, first, second); the first has a
\* text of two parts and the second ended with the duplicate error.
C17_Witness ==
  /\ chain.cur = <<4, 3>>
  /\ Len(chain.calls[1]) = 2
  /\ Len(chain.calls[2]) = 2
  /\ chain.out[1].err = NoErr
  /\ chain.out[2].err = erAlrOc
  /\ chain.calls[1][1][1] = chain.calls[2][1][1]

-----------------------------------------------------------------------------
(* combine of two selectors built from the builder, and calls on the       *)
(* selector it returns.                                                    *)

\* Two selectors of one part each have been built from the builder.
InitCombine ==
  /\ \E op1 \in AddOps, op2 \in AddOps, v1 \in Values, v2 \in Values :
       LET r1 == Apply(op1, <<cssSelectorBuilder>>, 1, v1)
           r2 == Apply(op2, r1.heap, 1, v2)
       IN /\ heap = r2.heap
          /\ ghost = <<[frags |-> <<>>, pure |-> TRUE, from |-> 0],
                       [frags |-> << <<op1, v1>> >>, pure |-> TRUE, from |-> 1],
                       [frags |-> << <<op2, v2>> >>, pure |-> TRUE, from |-> 1]>>
          /\ last = [NoCall EXCEPT !.op = op2, !.this = 1, !.value = v2,
                                   !.ret = r2.ret]
  /\ Idle

\* combine is called, on the builder or on one of the two selectors.
CombineBuilt ==
  /\ Len(heap) = 3
  /\ \E this \in DOMAIN heap, s1 \in DOMAIN heap, s2 \in DOMAIN heap,
        combinator \in Tokens :
       LET r == combine(heap, this, s1, combinator, s2) IN
       /\ heap' = r.heap
       /\ ghost' = Bind(ghost, r.ret,
                        [frags |-> ghost[this].frags, pure |-> FALSE,
                         from |-> this])
       /\ last' = [NoCall EXCEPT !.op = "combine", !.this = this,
                                 !.value = combinator, !.a = s1, !.b = s2,
                                 !.err = r.err, !.ret = r.ret]
  /\ UNCHANGED aside

\* A part-adding method is called on the selector combine returned.
CallOnCombined ==
  /\ Len(heap) = 4
  /\ \E op \in AddOps, value \in Values :
       LET r == Apply(op, heap, 4, value) IN
       /\ heap' = r.heap
       /\ ghost' = IF r.err = NoErr
                   THEN Bind(ghost, r.ret,
                             [frags |-> Append(ghost[4].frags, <<op, value>>),
                              pure |-> ghost[4].pure, from |-> 4])
                   ELSE ghost
       /\ last' = [NoCall EXCEPT !.op = op, !.this = 4, !.value = value,
                                 !.err = r.err, !.ret = r.ret]
  /\ UNCHANGED aside

NextCombine ==
  \/ CombineBuilt
  \/ CallOnCombined

SpecCombine == InitCombine /\ [][NextCombine]_vars

\* The last category and the occurrence flags of an object.
Marks(o) == <<o.prev, o.elOc, o.idOc, o.pElOc>>

\* C19: the object combine returns has the last category and the flags of
\* combine's receiver, not of its arguments; returned by combine on the
\* builder it is empty for validation, and any part-adding call on it
\* succeeds and appends its part to the combined text.
C19_CombineMarks ==
  /\ last.op = "combine" => Marks(heap[last.ret]) = Marks(heap[last.this])
  /\ (/\ last.op \in AddOps
      /\ Len(heap) >= 4
      /\ last.this = 4
      /\ ghost[4].from = 1) =>
       /\ Marks(heap[4]) = Marks(cssSelectorBuilder)
       /\ last.err = NoErr
       /\ heap[last.ret].total =
            heap[4].total \o Encoding(last.op, last.value)

\* element has succeeded on builder.combine(s1, '+', s2), s1 built with
\* element and s2 with id.
C19_Witness ==
  /\ Len(heap) = 5
  /\ heap[2].elOc
  /\ heap[3].idOc
  /\ ghost[4].from = 1
  /\ heap[4].total = heap[2].total \o " + " \o heap[3].total
  /\ last.op = "element"
  /\ last.this = 4
  /\ last.err = NoErr
  /\ heap[5].total = heap[4].total \o last.value

====
